---- MODULE Spec2Model ----
(***************************************************************************)
(* A model of requests_cache.core.CachedSession: the per-URL-prefix policy *)
(* tables (expire_after / throttle), the dispatch of one request through   *)
(* send() and request(), and the cache_disabled scope.                     *)
(*                                                                         *)
(* Time is counted in ticks of half a second.  The backend (BaseCache) and *)
(* the transport (requests.Session.send) are not part of core.py: the      *)
(* backend follows the CacheStore contract, the transport is an input.     *)
(*                                                                         *)
(* Around the session: the Mongo storage (backends/mongo.py and            *)
(* backends/storage/mongodict.py) with its TTL indexes and two concurrent  *)
(* callers, the patched session factory of install_cache, and two sessions *)
(* that share one backend.                                                 *)
(***************************************************************************)
EXTENDS Integers, Sequences, FiniteSets, TLC

VARIABLES
    cache_expire_after,          \* self._cache_expire_after: None or Some(seconds)
    cache_expire_after_override, \* self._cache_expire_after_override: netloc -> list of <<path, secs>>
    cache_throttle,              \* self._cache_throttle: netloc -> list of <<path, rate>>
    is_cache_disabled,           \* self._is_cache_disabled
    responses,                   \* self.cache.responses: key -> None or Some(entry)
    keys_map,                    \* self.cache.keys_map: alias key -> None or Some(key)
    now,                         \* datetime.utcnow(), in ticks
    scopes,                      \* number of cache_disabled() blocks entered and not yet left
    exc,                         \* an exception is propagating to the caller
    last,                        \* what the last call did (the caller's observation)
    mongo_ttl,                   \* expireAfterSeconds of the index of each Mongo collection
    collections,                 \* the documents of each Mongo collection: _id -> document
    mongo_now,                   \* datetime.utcnow() of the Mongo storage, in seconds
    callers,                     \* the concurrent callers of one MongoDict: where each stands
    completed,                   \* number of MongoDict operations completed so far
    installed,                   \* the patched requests.Session factory, None if not patched
    dispatchers                  \* the sessions sharing one backend: where each stands in send()

session_vars == <<cache_expire_after, cache_expire_after_override, cache_throttle,
                  is_cache_disabled, responses, keys_map, now, scopes, exc, last>>
mongo_vars == <<mongo_ttl, collections, mongo_now, callers, completed>>
outside_session == <<mongo_vars, installed, dispatchers>>

vars == <<session_vars, outside_session>>

(***************************************************************************)
(* Optional values: Python's None and a present value.                     *)
(***************************************************************************)
None == {}
Some(v) == {v}
The(o) == CHOOSE x \in o : TRUE

(***************************************************************************)
(* Bounds of the model.                                                    *)
(***************************************************************************)
MaxNow == 3           \* the clock stops advancing at this tick
MaxScopes == 2        \* deepest nesting of cache_disabled() blocks

(***************************************************************************)
(* URLs.  A path is the sequence of its characters, so that startswith is  *)
(* the lexical prefix test of the code.                                    *)
(***************************************************************************)
Hosts == {"h", "g"}
P_root == <<>>
P_a == <<"/", "a">>
P_a2 == <<"/", "a", "2">>
P_ax == <<"/", "a", "/", "x">>
P_b == <<"/", "b">>
Paths == {P_root, P_a, P_a2, P_ax, P_b}
Url(h, p) == <<h, p>>
Urls == {Url(h, p) : h \in Hosts, p \in Paths}

urlparse(url) == [netloc |-> url[1], path |-> url[2]]

startswith(s, prefix) ==
    /\ Len(prefix) <= Len(s)
    /\ SubSeq(s, 1, Len(prefix)) = prefix

(***************************************************************************)
(* a.sort(key=lambda t: len(t[0]), reverse=True): a stable sort by         *)
(* descending length of the path.                                          *)
(***************************************************************************)
RECURSIVE InsertByLenDesc(_, _)
InsertByLenDesc(sorted, t) ==
    IF sorted = <<>> THEN <<t>>
    ELSE IF Len(Head(sorted)[1]) >= Len(t[1])
         THEN <<Head(sorted)>> \o InsertByLenDesc(Tail(sorted), t)
         ELSE <<t>> \o sorted

RECURSIVE SortByLenDesc(_)
SortByLenDesc(a) ==
    IF a = <<>> THEN <<>>
    ELSE InsertByLenDesc(SortByLenDesc(SubSeq(a, 1, Len(a) - 1)), a[Len(a)])

(***************************************************************************)
(* The list a registration leaves for the host (core.py 167-170 and        *)
(* 199-202): the host's entry is first bound to a new empty list, the rule *)
(* is appended to it and the list is sorted.                               *)
(***************************************************************************)
NewHostRules(table, netloc, path, value) ==
    LET a0 == <<>>
        a1 == Append(a0, <<path, value>>)
    IN  SortByLenDesc(a1)

(***************************************************************************)
(* The first rule of list a whose path is a prefix of path, or None.       *)
(***************************************************************************)
RECURSIVE FirstMatch(_, _)
FirstMatch(a, path) ==
    IF a = <<>> THEN None
    ELSE IF startswith(path, Head(a)[1]) THEN Some(Head(a)[2])
         ELSE FirstMatch(Tail(a), path)

\* Python's "not x" for x None or a number
Falsy(x) == x = None \/ x = Some(0)

lookup_expire_after(url) ==
    IF Falsy(cache_expire_after) THEN None
    ELSE LET p_url == urlparse(url)
             m == FirstMatch(cache_expire_after_override[p_url.netloc], p_url.path)
         IN  IF m # None THEN m ELSE cache_expire_after

lookup_throttle(url) ==
    LET p_url == urlparse(url)
    IN  FirstMatch(cache_throttle[p_url.netloc], p_url.path)

(***************************************************************************)
(* The caller's observation of the last call.                              *)
(***************************************************************************)
NoCall ==
    [op |-> "init", url |-> Url("h", P_root), method |-> "", arg |-> 0,
     outcome |-> "returned", error |-> "none", fault |-> "none",
     ret |-> None, route |-> "none",
     from_cache |-> FALSE, transport_calls |-> 0, events |-> <<>>,
     started_at |-> 0, transport_at |-> None, found |-> None,
     slept |-> None, response |-> None, scopes |-> 0]

MaxRate == 1000

\* d[k] = v on a Python dict
Put(d, k, v) == [x \in DOMAIN d \cup {k} |-> IF x = k THEN v ELSE d[x]]
\* d.pop(k, None)
Remove(d, k) == [x \in DOMAIN d \ {k} |-> d[x]]

\* the values of expire_after tried at construction: none, 0 and 1 second
Defaults == {None, Some(0), Some(1)}

InitSession ==
    /\ cache_expire_after \in Defaults
    /\ cache_expire_after_override = [h \in Hosts |-> <<>>]
    /\ cache_throttle = [h \in Hosts |-> <<>>]
    /\ is_cache_disabled = FALSE
    /\ responses = [k \in {} |-> None]
    /\ keys_map = [k \in {} |-> None]
    /\ now = 0
    /\ scopes = 0
    /\ exc = FALSE
    /\ last = NoCall

\* no Mongo storage, no patched factory, no second session
InitMongoUnused ==
    /\ mongo_ttl = None
    /\ collections = None
    /\ mongo_now = 0
    /\ callers = None
    /\ completed = 0
InitNotInstalled == installed = None
InitUnshared == dispatchers = None

Init == InitSession /\ InitMongoUnused /\ InitNotInstalled /\ InitUnshared

\* faulty variant: the value is not compared with the global default
expire_after_unchecked(url, v) ==
    /\ ~exc
    /\ IF Falsy(cache_expire_after)
       THEN /\ last' = [NoCall EXCEPT !.op = "expire_after", !.url = url, !.arg = v,
                                      !.outcome = "returned", !.ret = None,
                                      !.scopes = scopes]
            /\ UNCHANGED <<cache_expire_after_override, exc>>
       ELSE IF v < 0
       THEN /\ last' = [NoCall EXCEPT !.op = "expire_after", !.url = url, !.arg = v,
                                      !.outcome = "raised", !.error = "value",
                                      !.ret = None,
                                      !.scopes = scopes]
            /\ exc' = TRUE
            /\ UNCHANGED cache_expire_after_override
       ELSE LET p_url == urlparse(url)
            IN  /\ cache_expire_after_override' =
                       [cache_expire_after_override EXCEPT ![p_url.netloc] =
                           NewHostRules(cache_expire_after_override, p_url.netloc,
                                        p_url.path, v)]
                /\ last' = [NoCall EXCEPT !.op = "expire_after", !.url = url, !.arg = v,
                                          !.outcome = "returned", !.ret = Some(v),
                                          !.scopes = scopes]
                /\ UNCHANGED exc
    /\ UNCHANGED <<cache_expire_after, cache_throttle, is_cache_disabled, responses,
                   keys_map, now, scopes>>
    /\ UNCHANGED outside_session

(***************************************************************************)
(* CachedSession.expire_after(url, expire_after)                           *)
(***************************************************************************)
expire_after(url, v) ==
    /\ ~exc
    /\ IF Falsy(cache_expire_after)
       THEN \* return None
            /\ last' = [NoCall EXCEPT !.op = "expire_after", !.url = url, !.arg = v,
                                      !.outcome = "returned", !.ret = None,
                                      !.scopes = scopes]
            /\ UNCHANGED <<cache_expire_after_override, exc>>
       ELSE IF v > The(cache_expire_after) \/ v < 0
       THEN \* raise ValueError
            /\ last' = [NoCall EXCEPT !.op = "expire_after", !.url = url, !.arg = v,
                                      !.outcome = "raised", !.error = "value",
                                      !.ret = None,
                                      !.scopes = scopes]
            /\ exc' = TRUE
            /\ UNCHANGED cache_expire_after_override
       ELSE LET p_url == urlparse(url)
            IN  /\ cache_expire_after_override' =
                       [cache_expire_after_override EXCEPT ![p_url.netloc] =
                           NewHostRules(cache_expire_after_override, p_url.netloc,
                                        p_url.path, v)]
                /\ last' = [NoCall EXCEPT !.op = "expire_after", !.url = url, !.arg = v,
                                          !.outcome = "returned", !.ret = Some(v),
                                          !.scopes = scopes]
                /\ UNCHANGED exc
    /\ UNCHANGED <<cache_expire_after, cache_throttle, is_cache_disabled, responses,
                   keys_map, now, scopes>>
    /\ UNCHANGED outside_session

(***************************************************************************)
(* CachedSession.throttle(url, requests_per_second)                        *)
(***************************************************************************)
throttle(url, requests_per_second) ==
    /\ ~exc
    /\ IF requests_per_second < 0 \/ requests_per_second > MaxRate
       THEN \* raise ValueError
            /\ last' = [NoCall EXCEPT !.op = "throttle", !.url = url,
                                      !.arg = requests_per_second,
                                      !.outcome = "raised", !.error = "value",
                                      !.ret = None,
                                      !.scopes = scopes]
            /\ exc' = TRUE
            /\ UNCHANGED cache_throttle
       ELSE LET p_url == urlparse(url)
            IN  /\ cache_throttle' =
                       [cache_throttle EXCEPT ![p_url.netloc] =
                           NewHostRules(cache_throttle, p_url.netloc, p_url.path,
                                        requests_per_second)]
                /\ last' = [NoCall EXCEPT !.op = "throttle", !.url = url,
                                          !.arg = requests_per_second,
                                          !.outcome = "returned",
                                          !.ret = Some(requests_per_second),
                                          !.scopes = scopes]
                /\ UNCHANGED exc
    /\ UNCHANGED <<cache_expire_after, cache_expire_after_override, is_cache_disabled,
                   responses, keys_map, now, scopes>>
    /\ UNCHANGED outside_session

(***************************************************************************)
(* The caller catches a propagating exception.                             *)
(***************************************************************************)
Catch ==
    /\ exc
    /\ exc' = FALSE
    /\ last' = [NoCall EXCEPT !.op = "catch", !.scopes = scopes]
    /\ UNCHANGED <<cache_expire_after, cache_expire_after_override, cache_throttle,
                   is_cache_disabled, responses, keys_map, now, scopes>>
    /\ UNCHANGED outside_session

(***************************************************************************)
(* The backend (BaseCache), after the CacheStore contract: a key is first  *)
(* resolved through the alias map, then looked up among the responses.     *)
(***************************************************************************)
create_key(method, url) == <<method, url>>

resolve_alias(km, key) == IF key \in DOMAIN km THEN km[key] ELSE key

get_response_and_time(rs, km, key) ==
    LET canonical_key == resolve_alias(km, key)
    IN  IF canonical_key \in DOMAIN rs THEN Some(rs[canonical_key]) ELSE None

save_response(rs, key, response, stored_at) ==
    Put(rs, key, [payload |-> response, stored_at |-> stored_at])

delete(rs, km, key) == Remove(rs, resolve_alias(km, key))

add_key_mapping(km, new_key, key_to_response) == Put(km, new_key, key_to_response)

(***************************************************************************)
(* The transport: what super().send() answers for a request.  A response   *)
(* carries its status, the URLs of its redirect history (the first is the  *)
(* URL asked for) and the URL of its final request.                        *)
(***************************************************************************)
AllowableCodes == {200}
AllowableMethods == {"GET"}
U1 == Url("h", P_a)
U2 == Url("h", P_b)
U3 == Url("h", P_ax)

Exchange(failed, status, history, final) ==
    [failed |-> failed, status |-> status, history |-> history, final |-> final]

\* the answers tried for a request of url: a direct answer with either status,
\* a failure, and the redirect chains U1 -> U2 -> U3 and U3 -> U1
Transport(url) ==
    {Exchange(FALSE, st, <<>>, url) : st \in {200, 404}}
    \cup {Exchange(TRUE, 0, <<>>, url)}
    \cup (IF url = U1 THEN {Exchange(FALSE, 200, <<U1, U2>>, U3)} ELSE {})
    \cup (IF url = U3 THEN {Exchange(FALSE, 200, <<U3>>, U1)} ELSE {})

\* the requests tried
Requests == {<<"GET", U1>>, <<"GET", U3>>, <<"POST", U1>>}

Payload(t) == [status |-> t.status, history |-> t.history, final |-> t.final]

\* timedelta(seconds=s), in ticks
timedelta(seconds) == 2 * seconds

\* faulty variant: the wait is left out
wait_for_throttle_never(url) == None

(***************************************************************************)
(* send.wait_for_throttle: the rate r for which sleep(1.0 / r) is called,  *)
(* None when there is no sleep.                                            *)
(***************************************************************************)
wait_for_throttle(url) ==
    LET requests_per_second == lookup_throttle(url)
    IN  IF requests_per_second # None /\ The(requests_per_second) > 0
        THEN requests_per_second
        ELSE None

\* the ticks that sleep(1.0 / r) takes, whole ticks only
SleepTicks(slept) == IF slept = None THEN 0 ELSE 2 \div The(slept)

\* faulty variant: a failed transport call is made a second time
send_request_and_retry(rs, key, url, t, clock, fault) ==
    LET slept == wait_for_throttle(url)
        t1 == clock + SleepTicks(slept)
        saved == ~t.failed /\ t.status \in AllowableCodes
        put_failed == saved /\ fault = "put"
    IN  [responses |-> IF saved /\ ~put_failed
                       THEN save_response(rs, key, Payload(t), t1) ELSE rs,
         now |-> t1,
         events |-> (IF slept # None THEN <<"sleep">> ELSE <<>>)
                    \o <<"transport">>
                    \o (IF t.failed THEN <<"transport">> ELSE <<>>)
                    \o (IF saved THEN <<"put">> ELSE <<>>),
         slept |-> slept,
         transport_calls |-> IF t.failed THEN 2 ELSE 1,
         transport_at |-> Some(t1),
         failed |-> t.failed \/ put_failed,
         error |-> IF t.failed THEN "transport"
                   ELSE IF put_failed THEN "storage" ELSE "none",
         from_cache |-> FALSE,
         response |-> IF t.failed \/ put_failed THEN None ELSE Some(Payload(t))]

\* faulty variant: the response is saved whatever its status
send_request_and_cache_any_response(rs, key, url, t, clock, fault) ==
    LET slept == wait_for_throttle(url)
        t1 == clock + SleepTicks(slept)
        saved == ~t.failed
        put_failed == saved /\ fault = "put"
    IN  [responses |-> IF saved /\ ~put_failed
                       THEN save_response(rs, key, Payload(t), t1) ELSE rs,
         now |-> t1,
         events |-> (IF slept # None THEN <<"sleep">> ELSE <<>>)
                    \o <<"transport">>
                    \o (IF saved THEN <<"put">> ELSE <<>>),
         slept |-> slept,
         transport_calls |-> 1,
         transport_at |-> Some(t1),
         failed |-> t.failed \/ put_failed,
         error |-> IF t.failed THEN "transport"
                   ELSE IF put_failed THEN "storage" ELSE "none",
         from_cache |-> FALSE,
         response |-> IF t.failed \/ put_failed THEN None ELSE Some(Payload(t))]

(***************************************************************************)
(* send.send_request_and_cache_response, started at tick clock on the      *)
(* responses rs.                                                           *)
(***************************************************************************)
send_request_and_cache_response(rs, key, url, t, clock, fault) ==
    LET slept == wait_for_throttle(url)
        t1 == clock + SleepTicks(slept)
        saved == ~t.failed /\ t.status \in AllowableCodes
        put_failed == saved /\ fault = "put"
    IN  [responses |-> IF saved /\ ~put_failed
                       THEN save_response(rs, key, Payload(t), t1) ELSE rs,
         now |-> t1,
         events |-> (IF slept # None THEN <<"sleep">> ELSE <<>>)
                    \o <<"transport">>
                    \o (IF saved THEN <<"put">> ELSE <<>>),
         slept |-> slept,
         transport_calls |-> 1,
         transport_at |-> Some(t1),
         failed |-> t.failed \/ put_failed,
         error |-> IF t.failed THEN "transport"
                   ELSE IF put_failed THEN "storage" ELSE "none",
         from_cache |-> FALSE,
         response |-> IF t.failed \/ put_failed THEN None ELSE Some(Payload(t))]

\* faulty variant: an entry is expired from the boundary on
ExpiredFromBoundary(entry, expire, clock) ==
    expire # None /\ clock - entry.stored_at >= timedelta(The(expire))

\* if difference > timedelta(seconds=expire_after)
Expired(entry, expire, clock) ==
    expire # None /\ clock - entry.stored_at > timedelta(The(expire))

\* faulty variant: a failed lookup is taken for a miss
send_lookup_failure_as_miss(method, url, t, fault) ==
    IF is_cache_disabled \/ method \notin AllowableMethods
    THEN [responses |-> responses, now |-> now, events |-> <<"transport">>,
          slept |-> None, transport_calls |-> 1, transport_at |-> Some(now),
          failed |-> t.failed, error |-> IF t.failed THEN "transport" ELSE "none",
          from_cache |-> FALSE,
          response |-> IF t.failed THEN None ELSE Some(Payload(t)),
          route |-> "pass", found |-> None]
    ELSE LET cache_key == create_key(method, url)
             found == get_response_and_time(responses, keys_map, cache_key)
         IN  IF fault = "get"
             THEN LET r == send_request_and_cache_response(
                               responses, cache_key, url, t, now, "none")
                  IN  [r EXCEPT !.events = <<"get">> \o @]
                        @@ [route |-> "miss", found |-> None]
             ELSE IF found = None
             THEN LET r == send_request_and_cache_response(
                               responses, cache_key, url, t, now, fault)
                  IN  [r EXCEPT !.events = <<"get">> \o @]
                        @@ [route |-> "miss", found |-> None]
             ELSE IF Expired(The(found), lookup_expire_after(url), now)
             THEN LET r == send_request_and_cache_response(
                               delete(responses, keys_map, cache_key),
                               cache_key, url, t, now, fault)
                  IN  [r EXCEPT !.events = <<"get", "delete">> \o @]
                        @@ [route |-> "stale", found |-> found]
             ELSE [responses |-> responses, now |-> now, events |-> <<"get">>,
                   slept |-> None, transport_calls |-> 0, transport_at |-> None,
                   failed |-> FALSE, error |-> "none", from_cache |-> TRUE,
                   response |-> Some(The(found).payload),
                   route |-> "hit", found |-> found]

(***************************************************************************)
(* CachedSession.send(request) with the transport answering t.  fault is   *)
(* the backend operation that raises during this call ("none", "get" or    *)
(* "put"); send has no except clause, so the exception leaves send at the  *)
(* call that raised.                                                       *)
(***************************************************************************)
send(method, url, t, fault) ==
    IF is_cache_disabled \/ method \notin AllowableMethods
    THEN [responses |-> responses, now |-> now, events |-> <<"transport">>,
          slept |-> None, transport_calls |-> 1, transport_at |-> Some(now),
          failed |-> t.failed, error |-> IF t.failed THEN "transport" ELSE "none",
          from_cache |-> FALSE,
          response |-> IF t.failed THEN None ELSE Some(Payload(t)),
          route |-> "pass", found |-> None]
    ELSE LET cache_key == create_key(method, url)
             found == get_response_and_time(responses, keys_map, cache_key)
         IN  IF fault = "get"
             THEN [responses |-> responses, now |-> now, events |-> <<"get">>,
                   slept |-> None, transport_calls |-> 0, transport_at |-> None,
                   failed |-> TRUE, error |-> "storage", from_cache |-> FALSE,
                   response |-> None, route |-> "lookup_failed", found |-> None]
             ELSE IF found = None
             THEN LET r == send_request_and_cache_response(
                               responses, cache_key, url, t, now, fault)
                  IN  [r EXCEPT !.events = <<"get">> \o @]
                        @@ [route |-> "miss", found |-> None]
             ELSE IF Expired(The(found), lookup_expire_after(url), now)
             THEN LET r == send_request_and_cache_response(
                               delete(responses, keys_map, cache_key),
                               cache_key, url, t, now, fault)
                  IN  [r EXCEPT !.events = <<"get", "delete">> \o @]
                        @@ [route |-> "stale", found |-> found]
             ELSE [responses |-> responses, now |-> now, events |-> <<"get">>,
                   slept |-> None, transport_calls |-> 0, transport_at |-> None,
                   failed |-> FALSE, error |-> "none", from_cache |-> TRUE,
                   response |-> Some(The(found).payload),
                   route |-> "hit", found |-> found]

\* faulty variant: only the last request of the history is mapped
AddLastOfHistory(km, method, history, main_key) ==
    IF history = <<>> THEN km
    ELSE add_key_mapping(km, create_key(method, history[Len(history)]), main_key)

\* for r in response.history: add_key_mapping(create_key(r.request), main_key)
RECURSIVE AddHistory(_, _, _, _)
AddHistory(km, method, history, main_key) ==
    IF history = <<>> THEN km
    ELSE AddHistory(add_key_mapping(km, create_key(method, Head(history)), main_key),
                    method, Tail(history), main_key)

(***************************************************************************)
(* CachedSession.request(method, url): super().request() sends the request *)
(* through send(), then the redirect history is recorded.                  *)
(***************************************************************************)
request(method, url, t, fault) ==
    LET s == send(method, url, t, fault)
    IN  /\ ~exc
        /\ s.now <= MaxNow
        /\ responses' = s.responses
        /\ now' = s.now
        /\ exc' = s.failed
        /\ keys_map' =
              IF s.failed \/ is_cache_disabled THEN keys_map
              ELSE LET response == The(s.response)
                       main_key == create_key(method, response.final)
                   IN  AddHistory(keys_map, method, response.history, main_key)
        /\ last' = [NoCall EXCEPT !.op = "request", !.url = url, !.method = method,
                                  !.outcome = IF s.failed THEN "raised" ELSE "returned",
                                  !.error = s.error, !.fault = fault,
                                  !.route = s.route, !.from_cache = s.from_cache,
                                  !.transport_calls = s.transport_calls,
                                  !.events = IF s.failed \/ is_cache_disabled
                                                \/ The(s.response).history = <<>>
                                             THEN s.events ELSE s.events \o <<"alias">>,
                                  !.started_at = now, !.transport_at = s.transport_at,
                                  !.found = s.found, !.slept = s.slept,
                                  !.response = s.response, !.scopes = scopes]
        /\ UNCHANGED <<cache_expire_after, cache_expire_after_override, cache_throttle,
                       is_cache_disabled, scopes>>
        /\ UNCHANGED outside_session

(***************************************************************************)
(* CachedSession.cache_disabled(): entering the with block, and leaving it *)
(* (the finally clause), normally or with an exception propagating.        *)
(***************************************************************************)
cache_disabled_enter(depth) ==
    /\ ~exc
    /\ scopes < depth
    /\ is_cache_disabled' = TRUE
    /\ scopes' = scopes + 1
    /\ last' = [NoCall EXCEPT !.op = "enter", !.scopes = scopes + 1]
    /\ UNCHANGED <<cache_expire_after, cache_expire_after_override, cache_throttle,
                   responses, keys_map, now, exc>>
    /\ UNCHANGED outside_session

\* faulty variant: no finally clause, the flag is reset on the normal exit only
cache_disabled_exit_no_finally ==
    /\ scopes > 0
    /\ is_cache_disabled' = exc
    /\ scopes' = scopes - 1
    /\ last' = [NoCall EXCEPT !.op = "exit", !.scopes = scopes - 1,
                              !.outcome = IF exc THEN "raised" ELSE "returned"]
    /\ UNCHANGED <<cache_expire_after, cache_expire_after_override, cache_throttle,
                   responses, keys_map, now, exc>>
    /\ UNCHANGED outside_session

cache_disabled_exit ==
    /\ scopes > 0
    /\ is_cache_disabled' = FALSE
    /\ scopes' = scopes - 1
    /\ last' = [NoCall EXCEPT !.op = "exit", !.scopes = scopes - 1,
                              !.outcome = IF exc THEN "raised" ELSE "returned"]
    /\ UNCHANGED <<cache_expire_after, cache_expire_after_override, cache_throttle,
                   responses, keys_map, now, exc>>
    /\ UNCHANGED outside_session

(***************************************************************************)
(* Time passes.                                                            *)
(***************************************************************************)
Tick ==
    /\ now < MaxNow
    /\ now' = now + 1
    /\ last' = [NoCall EXCEPT !.op = "tick", !.scopes = scopes]
    /\ UNCHANGED <<cache_expire_after, cache_expire_after_override, cache_throttle,
                   is_cache_disabled, responses, keys_map, scopes, exc>>
    /\ UNCHANGED outside_session

\* the registrations tried between dispatches: one prefix, accepted values
RuleUrls == {Url("h", P_a)}
Expirations == {0, 1}
Rates == {0, 2}

Next ==
    \/ \E url \in RuleUrls, v \in Expirations : expire_after(url, v)
    \/ \E url \in RuleUrls, r \in Rates : throttle(url, r)
    \/ \E rq \in Requests : \E t \in Transport(rq[2]) : request(rq[1], rq[2], t, "none")
    \/ cache_disabled_enter(1)
    \/ cache_disabled_exit
    \/ Tick
    \/ Catch

Spec == Init /\ [][Next]_vars

(***************************************************************************)
(* The policy tables alone: every registration on every URL.               *)
(***************************************************************************)
PolicyUrls == {Url("h", P_a), Url("h", P_ax), Url("g", P_a)}
ExpireArgs == {0 - 1, 0, 1, 2}
RateArgs == {0 - 1, 0, 2, MaxRate, MaxRate + 1}

NextPolicy ==
    \/ \E url \in PolicyUrls, v \in ExpireArgs : expire_after(url, v)
    \/ \E url \in PolicyUrls, r \in RateArgs : throttle(url, r)
    \/ Catch

SpecPolicy == Init /\ [][NextPolicy]_vars

(***************************************************************************)
(* The cache_disabled scope, nested up to MaxScopes deep, around the       *)
(* dispatches of one request whose transport may fail.                     *)
(***************************************************************************)
NextScopes ==
    \/ \E t \in Transport(U1) : request("GET", U1, t, "none")
    \/ cache_disabled_enter(MaxScopes)
    \/ cache_disabled_exit
    \/ Tick
    \/ Catch

SpecScopes == Init /\ [][NextScopes]_vars

(***************************************************************************)
(* The dispatches of one request while the backend or the transport may    *)
(* fail: the lookup raises, the save raises, or the transport raises.      *)
(***************************************************************************)
Faults == {"none", "get", "put"}

NextFaults ==
    \/ \E t \in Transport(U1), fault \in Faults : request("GET", U1, t, fault)
    \/ Tick
    \/ Catch

SpecFaults == Init /\ [][NextFaults]_vars

(***************************************************************************)
(* The policy tables under every registration, accepted or rejected, and   *)
(* under the dispatches of one request.                                    *)
(***************************************************************************)
NextTables ==
    \/ \E url \in PolicyUrls, v \in ExpireArgs : expire_after(url, v)
    \/ \E url \in PolicyUrls, r \in RateArgs : throttle(url, r)
    \/ \E t \in Transport(U1) : request("GET", U1, t, "none")
    \/ Catch

SpecTables == Init /\ [][NextTables]_vars

(***************************************************************************)
(* The Mongo storage.  Each call of pymongo (find_one, save, remove) is    *)
(* one atomic operation of the server on the documents of a collection;    *)
(* a MongoDict method is the sequence of the calls it makes.  Time is      *)
(* counted in seconds here.                                                *)
(***************************************************************************)
MongoDefaultTTL == 300
MaxOps == 3           \* MongoDict operations completed in one behaviour

Collections == {"responses", "urls"}
MongoKeys == {"k"}
Items == {"a", "b"}
Callers == {1, 2}
MongoTimes == {0, 200, 400, 700}
SessionExpirations == {None, Some(100), Some(300), Some(600)}
NoDocuments == [k \in {} |-> None]

\* collection.find_one({'_id': key})
find_one(coll, key) == IF key \in DOMAIN coll THEN Some(coll[key]) ELSE None

\* faulty variant: an insert, which leaves an existing document as it is
insert_if_absent(coll, key, item, t) ==
    IF key \in DOMAIN coll THEN coll
    ELSE Put(coll, key, [data |-> item, updated_at |-> t])

\* collection.save({'_id': key, 'data': item, 'updated_at': datetime.utcnow()})
save(coll, key, item, t) == Put(coll, key, [data |-> item, updated_at |-> t])

\* faulty variant: nothing is removed
remove_nothing(coll, key) == coll

\* collection.remove({'_id': key}): no error when nothing matches
remove(coll, key) == Remove(coll, key)

\* MongoPickleDict: the values of the responses collection are pickled
pickle_dumps(item) == <<"pickle", item>>
pickle_loads(data) == data[2]
Pickled(name) == name = "responses"

\* dict.get(key, default) on the backend options
options_get(options, key, default) ==
    IF key \in DOMAIN options THEN options[key] ELSE default

\* CachedSession.__init__: backend_options['expire_after'] = expire_after
backend_options(expire) == [o \in {"expire_after"} |-> expire]

\* MongoDict.__init__(..., expire_after=300): the expireAfterSeconds of the
\* index on updated_at; None builds an index that expires nothing
ensure_index(expire) == expire

\* MongoCache.__init__(**options): the TTL of each of the two collections
MongoCache(options) ==
    LET expire == options_get(options, "expire_after", Some(MongoDefaultTTL))
    IN  [responses |-> ensure_index(Some(MongoDefaultTTL)),
         urls |-> ensure_index(expire)]

Idle == [pc |-> "idle", op |-> "none", coll |-> "urls", key |-> "k", item |-> "",
         result |-> "none", done_at |-> 0, prev |-> "none"]

\* a session constructed with the mongo backend
InitMongo ==
    /\ cache_expire_after \in SessionExpirations
    /\ cache_expire_after_override = [h \in Hosts |-> <<>>]
    /\ cache_throttle = [h \in Hosts |-> <<>>]
    /\ is_cache_disabled = FALSE
    /\ responses = [k \in {} |-> None]
    /\ keys_map = [k \in {} |-> None]
    /\ now = 0
    /\ scopes = 0
    /\ exc = FALSE
    /\ last = NoCall
    /\ mongo_ttl = MongoCache(backend_options(cache_expire_after))
    /\ collections = [c \in Collections |-> NoDocuments]
    /\ mongo_now = 0
    /\ callers = [c \in Callers |-> Idle]
    /\ completed = 0
    /\ InitNotInstalled
    /\ InitUnshared

\* the caller's operation returns or raises
Completes(c, op, name, key, item, result) ==
    /\ callers' = [callers EXCEPT ![c] =
                     [pc |-> "idle", op |-> op, coll |-> name, key |-> key,
                      item |-> item, result |-> result, done_at |-> completed + 1,
                      prev |-> callers[c].op]]
    /\ completed' = completed + 1

\* MongoDict.__getitem__ / MongoPickleDict.__getitem__
getitem(c, name, key) ==
    /\ callers[c].pc = "idle"
    /\ completed < MaxOps
    /\ LET result == find_one(collections[name], key)
       IN  Completes(c, "get", name, key, "",
                     IF result = None THEN "KeyError"
                     ELSE IF Pickled(name) THEN pickle_loads(The(result).data)
                     ELSE The(result).data)
    /\ UNCHANGED <<collections, mongo_ttl, mongo_now, session_vars, installed, dispatchers>>

\* MongoDict.__setitem__ / MongoPickleDict.__setitem__
setitem(c, name, key, item) ==
    /\ callers[c].pc = "idle"
    /\ completed < MaxOps
    /\ collections' = [collections EXCEPT ![name] =
                          save(@, key, IF Pickled(name) THEN pickle_dumps(item) ELSE item,
                               mongo_now)]
    /\ Completes(c, "set", name, key, item, "ok")
    /\ UNCHANGED <<mongo_ttl, mongo_now, session_vars, installed, dispatchers>>

\* what the caller of __delitem__ sees of its KeyError: del d[key] raises
\* it, the delete of the backend does not fail on an absent key
KeyErrorOutcome(op) == IF op = "delete" THEN "ok" ELSE "KeyError"

\* MongoDict.__delitem__, the find_one: op is "del" for del d[key] and
\* "delete" for the delete of the backend
delitem_find(c, name, key, op) ==
    /\ callers[c].pc = "idle"
    /\ completed < MaxOps
    /\ IF find_one(collections[name], key) # None
       THEN /\ callers' = [callers EXCEPT ![c] =
                              [pc |-> "remove", op |-> op, coll |-> name, key |-> key,
                               item |-> "", result |-> "none", done_at |-> 0,
                               prev |-> callers[c].op]]
            /\ UNCHANGED completed
       ELSE Completes(c, op, name, key, "",
                      KeyErrorOutcome(op))
    /\ UNCHANGED <<collections, mongo_ttl, mongo_now, session_vars, installed, dispatchers>>

\* MongoDict.__delitem__, the remove after a find_one that found the key
delitem_remove(c) ==
    /\ callers[c].pc = "remove"
    /\ collections' = [collections EXCEPT ![callers[c].coll] = remove(@, callers[c].key)]
    /\ callers' = [callers EXCEPT ![c] =
                     [@ EXCEPT !.pc = "idle", !.result = "ok",
                               !.done_at = completed + 1]]
    /\ completed' = completed + 1
    /\ UNCHANGED <<mongo_ttl, mongo_now, session_vars, installed, dispatchers>>

\* the TTL monitor of the server deletes a document whose updated_at is at
\* least expireAfterSeconds old
ttl_monitor(name, key) ==
    /\ key \in DOMAIN collections[name]
    /\ mongo_ttl[name] # None
    /\ mongo_now - collections[name][key].updated_at >= The(mongo_ttl[name])
    /\ collections' = [collections EXCEPT ![name] = Remove(@, key)]
    /\ UNCHANGED <<mongo_ttl, mongo_now, callers, completed, session_vars,
                   installed, dispatchers>>

mongo_tick ==
    /\ \E t \in MongoTimes : t > mongo_now /\ mongo_now' = t
    /\ UNCHANGED <<mongo_ttl, collections, callers, completed, session_vars,
                   installed, dispatchers>>

(***************************************************************************)
(* Two callers on one key of one MongoDict, in every interleaving of the   *)
(* server operations.                                                      *)
(***************************************************************************)
NextMongoDict ==
    \/ \E c \in Callers, key \in MongoKeys : getitem(c, "urls", key)
    \/ \E c \in Callers, key \in MongoKeys, item \in Items : setitem(c, "urls", key, item)
    \/ \E c \in Callers, key \in MongoKeys, op \in {"del", "delete"} :
          delitem_find(c, "urls", key, op)
    \/ \E c \in Callers : delitem_remove(c)

SpecMongoDict == InitMongo /\ [][NextMongoDict]_vars

(***************************************************************************)
(* The two collections of a MongoCache while time passes and the TTL       *)
(* monitor runs.                                                           *)
(***************************************************************************)
NextMongoTTL ==
    \/ \E name \in Collections, key \in MongoKeys : setitem(1, name, key, "a")
    \/ \E name \in Collections, key \in MongoKeys : getitem(1, name, key)
    \/ \E name \in Collections, key \in MongoKeys : ttl_monitor(name, key)
    \/ mongo_tick

SpecMongoTTL == InitMongo /\ [][NextMongoTTL]_vars

(***************************************************************************)
(* install_cache and the functions of the module.  The session variables   *)
(* are the session the caller holds: the one constructed directly or the   *)
(* one obtained last from requests.Session().                              *)
(***************************************************************************)
Backends == {None, Some("memory")}
NoOptions == [o \in {} |-> None]

\* install_cache(backend=backend, expire_after=expire): the factory that
\* replaces requests.Session, as the arguments its lambda closes over
install_cache(backend, expire) ==
    /\ ~exc
    /\ installed' =
          Some([backend |-> backend,
                expire_after |-> expire,
                backend_options |-> IF backend # None
                                    THEN backend_options(expire)
                                    ELSE NoOptions])
    /\ last' = [NoCall EXCEPT !.op = "install_cache", !.scopes = scopes]
    /\ UNCHANGED <<cache_expire_after, cache_expire_after_override, cache_throttle,
                   is_cache_disabled, responses, keys_map, now, scopes, exc>>
    /\ UNCHANGED <<mongo_vars, dispatchers>>

\* uninstall_cache(): requests.Session is the original class again
uninstall_cache ==
    /\ ~exc
    /\ installed # None
    /\ installed' = None
    /\ last' = [NoCall EXCEPT !.op = "uninstall_cache", !.scopes = scopes]
    /\ UNCHANGED <<cache_expire_after, cache_expire_after_override, cache_throttle,
                   is_cache_disabled, responses, keys_map, now, scopes, exc>>
    /\ UNCHANGED <<mongo_vars, dispatchers>>

\* the expire_after that session_factory(cache_name=..., backend=...,
\* allowable_codes=..., allowable_methods=..., **backend_options) hands to
\* CachedSession.__init__, whose default is None
FactoryExpireAfter(factory) == options_get(factory.backend_options, "expire_after", None)

\* s = requests.Session() under the patched factory: a new CachedSession on
\* the storage of the same cache name, held by the caller from now on
Session ==
    /\ ~exc
    /\ installed # None
    /\ scopes = 0
    /\ cache_expire_after' = FactoryExpireAfter(The(installed))
    /\ cache_expire_after_override' = [h \in Hosts |-> <<>>]
    /\ cache_throttle' = [h \in Hosts |-> <<>>]
    /\ is_cache_disabled' = FALSE
    /\ last' = [NoCall EXCEPT !.op = "Session"]
    /\ UNCHANGED <<responses, keys_map, now, scopes, exc>>
    /\ UNCHANGED outside_session

\* requests_cache.expire_after(url, expire_after): s = requests.Session();
\* return s.expire_after(url, expire_after).  s is a new session of the
\* factory, local to the call: the rule goes into the tables of s
module_expire_after(url, v) ==
    /\ ~exc
    /\ IF installed = None
       THEN \* raise TypeError
            /\ last' = [NoCall EXCEPT !.op = "module_expire_after", !.url = url,
                                      !.arg = v, !.outcome = "raised",
                                      !.error = "type", !.scopes = scopes]
            /\ exc' = TRUE
       ELSE LET s_cache_expire_after == FactoryExpireAfter(The(installed))
            IN  IF Falsy(s_cache_expire_after)
                THEN /\ last' = [NoCall EXCEPT !.op = "module_expire_after",
                                               !.url = url, !.arg = v,
                                               !.ret = None, !.scopes = scopes]
                     /\ UNCHANGED exc
                ELSE IF v > The(s_cache_expire_after) \/ v < 0
                THEN /\ last' = [NoCall EXCEPT !.op = "module_expire_after",
                                               !.url = url, !.arg = v,
                                               !.outcome = "raised",
                                               !.error = "value", !.scopes = scopes]
                     /\ exc' = TRUE
                ELSE /\ last' = [NoCall EXCEPT !.op = "module_expire_after",
                                               !.url = url, !.arg = v,
                                               !.ret = Some(v), !.scopes = scopes]
                     /\ UNCHANGED exc
    /\ UNCHANGED <<cache_expire_after, cache_expire_after_override, cache_throttle,
                   is_cache_disabled, responses, keys_map, now, scopes>>
    /\ UNCHANGED outside_session

\* requests_cache.throttle(url, requests_per_second), on a new session too
module_throttle(url, requests_per_second) ==
    /\ ~exc
    /\ IF installed = None
       THEN /\ last' = [NoCall EXCEPT !.op = "module_throttle", !.url = url,
                                      !.arg = requests_per_second,
                                      !.outcome = "raised", !.error = "type",
                                      !.scopes = scopes]
            /\ exc' = TRUE
       ELSE IF requests_per_second < 0 \/ requests_per_second > MaxRate
       THEN /\ last' = [NoCall EXCEPT !.op = "module_throttle", !.url = url,
                                      !.arg = requests_per_second,
                                      !.outcome = "raised", !.error = "value",
                                      !.scopes = scopes]
            /\ exc' = TRUE
       ELSE /\ last' = [NoCall EXCEPT !.op = "module_throttle", !.url = url,
                                      !.arg = requests_per_second,
                                      !.ret = Some(requests_per_second),
                                      !.scopes = scopes]
            /\ UNCHANGED exc
    /\ UNCHANGED <<cache_expire_after, cache_expire_after_override, cache_throttle,
                   is_cache_disabled, responses, keys_map, now, scopes>>
    /\ UNCHANGED outside_session

NextInstall ==
    \/ \E backend \in Backends, expire \in Defaults : install_cache(backend, expire)
    \/ uninstall_cache
    \/ Session
    \/ \E url \in RuleUrls, v \in ExpireArgs : module_expire_after(url, v)
    \/ \E url \in RuleUrls, r \in RateArgs : module_throttle(url, r)
    \/ \E url \in RuleUrls, v \in Expirations : expire_after(url, v)
    \/ \E t \in Transport(U1) : request("GET", U1, t, "none")
    \/ Catch

SpecInstall == Init /\ [][NextInstall]_vars

(***************************************************************************)
(* Two sessions built with the same expire_after on one backend, each      *)
(* sending GET U1.  send() is taken call by call: the lookup, the delete   *)
(* of the stale path, and the fetch with its save; the calls of the two    *)
(* sessions interleave.  The transport answers without redirects, so       *)
(* request() adds no alias.                                                *)
(***************************************************************************)
Dispatchers == {1, 2}
Direct(url) == {t \in Transport(url) : t.history = <<>>}
AtStart == [pc |-> "idle", found |-> None]

InitShared ==
    /\ InitSession
    /\ InitMongoUnused
    /\ InitNotInstalled
    /\ dispatchers = [d \in Dispatchers |-> AtStart]

\* response, timestamp = self.cache.get_response_and_time(cache_key) and the
\* tests that follow it
shared_lookup(d, url) ==
    LET cache_key == create_key("GET", url)
        found == get_response_and_time(responses, keys_map, cache_key)
        route == IF found = None THEN "miss"
                 ELSE IF Expired(The(found), lookup_expire_after(url), now)
                 THEN "stale" ELSE "hit"
    IN  /\ dispatchers[d].pc = "idle"
        /\ dispatchers' = [dispatchers EXCEPT ![d] =
                              [pc |-> CASE route = "miss" -> "fetch"
                                        [] route = "stale" -> "delete"
                                        [] OTHER -> "idle",
                               found |-> found]]
        /\ last' = [NoCall EXCEPT !.op = "lookup", !.url = url, !.method = "GET",
                                  !.arg = d, !.route = route, !.found = found,
                                  !.from_cache = (route = "hit"),
                                  !.started_at = now]
        /\ UNCHANGED <<cache_expire_after, cache_expire_after_override, cache_throttle,
                       is_cache_disabled, responses, keys_map, now, scopes, exc>>
        /\ UNCHANGED <<mongo_vars, installed>>

\* self.cache.delete(cache_key); last.found is the entry it removes
shared_delete(d, url) ==
    LET cache_key == create_key("GET", url)
    IN  /\ dispatchers[d].pc = "delete"
        /\ responses' = delete(responses, keys_map, cache_key)
        /\ dispatchers' = [dispatchers EXCEPT ![d].pc = "fetch"]
        /\ last' = [NoCall EXCEPT !.op = "delete", !.url = url, !.method = "GET",
                                  !.arg = d, !.route = "stale",
                                  !.found = get_response_and_time(responses, keys_map,
                                                                  cache_key),
                                  !.started_at = now]
        /\ UNCHANGED <<cache_expire_after, cache_expire_after_override, cache_throttle,
                       is_cache_disabled, keys_map, now, scopes, exc>>
        /\ UNCHANGED <<mongo_vars, installed>>

\* send_request_and_cache_response(); the response or the failure goes to
\* the caller of this session
shared_fetch(d, url, t) ==
    LET cache_key == create_key("GET", url)
        r == send_request_and_cache_response(responses, cache_key, url, t, now, "none")
    IN  /\ dispatchers[d].pc = "fetch"
        /\ r.now <= MaxNow
        /\ responses' = r.responses
        /\ now' = r.now
        /\ dispatchers' = [dispatchers EXCEPT ![d] = AtStart]
        /\ last' = [NoCall EXCEPT !.op = "fetch", !.url = url, !.method = "GET",
                                  !.arg = d,
                                  !.outcome = IF r.failed THEN "raised" ELSE "returned",
                                  !.error = r.error, !.events = r.events,
                                  !.transport_calls = r.transport_calls,
                                  !.transport_at = r.transport_at,
                                  !.response = r.response, !.started_at = now]
        /\ UNCHANGED <<cache_expire_after, cache_expire_after_override, cache_throttle,
                       is_cache_disabled, keys_map, scopes, exc>>
        /\ UNCHANGED <<mongo_vars, installed>>

shared_tick ==
    /\ now < MaxNow
    /\ now' = now + 1
    /\ last' = [NoCall EXCEPT !.op = "tick"]
    /\ UNCHANGED <<cache_expire_after, cache_expire_after_override, cache_throttle,
                   is_cache_disabled, responses, keys_map, scopes, exc>>
    /\ UNCHANGED <<mongo_vars, installed, dispatchers>>

NextShared ==
    \/ \E d \in Dispatchers : shared_lookup(d, U1)
    \/ \E d \in Dispatchers : shared_delete(d, U1)
    \/ \E d \in Dispatchers : \E t \in Direct(U1) : shared_fetch(d, U1, t)
    \/ shared_tick

SpecShared == InitShared /\ [][NextShared]_vars

(***************************************************************************)
(* Helpers of the policy claims.                                           *)
(***************************************************************************)
\* the values of the entries of table[h] whose path is exactly p
RuleAt(table, h, p) == {table[h][i][2] : i \in {j \in DOMAIN table[h] : table[h][j][1] = p}}
\* how many entries table[h] holds for exactly p
CountAt(table, h, p) == Cardinality({j \in DOMAIN table[h] : table[h][j][1] = p})
\* the length of the longest rule path of list a that is a prefix of path, -1 if none
MatchLen(a, path) ==
    LET ls == {Len(a[i][1]) : i \in {j \in DOMAIN a : startswith(path, a[j][1])}}
    IN  IF ls = {} THEN 0 - 1 ELSE CHOOSE l \in ls : \A m \in ls : m <= l
Accepted(l, op) == l.op = op /\ l.outcome = "returned" /\ l.ret # None
UnderPrefix(u, r) == u[1] = r[1] /\ startswith(u[2], r[2])

\* C1: with no rule registered every URL resolves to the global default
\* expiration / to no throttle, and every accepted registration of (h, p, v)
\* changes the resolution as longest-literal-prefix matching over all the
\* registered rules demands: a URL on h whose path starts with p, and for
\* which no longer registered prefix matched, now resolves to v; every other
\* URL resolves as before.
C1_LongestPrefixResolution ==
    [][\A u \in Urls :
         /\ Accepted(last', "expire_after") =>
               lookup_expire_after(u)' =
                  IF /\ UnderPrefix(u, last'.url)
                     /\ Len(last'.url[2]) >= MatchLen(cache_expire_after_override[u[1]], u[2])
                  THEN last'.ret ELSE lookup_expire_after(u)
         /\ Accepted(last', "throttle") =>
               lookup_throttle(u)' =
                  IF /\ UnderPrefix(u, last'.url)
                     /\ Len(last'.url[2]) >= MatchLen(cache_throttle[u[1]], u[2])
                  THEN last'.ret ELSE lookup_throttle(u)]_vars

\* C2: an accepted registration for (h, p) in one table leaves exactly one
\* entry for (h, p) in that table, holding the new value, and changes no
\* entry for another prefix or host and nothing of the other table.
C2_RegistrationFrame ==
    [][/\ \A h \in Hosts, p \in Paths :
            /\ RuleAt(cache_expire_after_override', h, p)
                    # RuleAt(cache_expire_after_override, h, p)
                 => Accepted(last', "expire_after") /\ last'.url = Url(h, p)
            /\ RuleAt(cache_throttle', h, p) # RuleAt(cache_throttle, h, p)
                 => Accepted(last', "throttle") /\ last'.url = Url(h, p)
       /\ Accepted(last', "expire_after") =>
            /\ RuleAt(cache_expire_after_override', last'.url[1], last'.url[2]) = last'.ret
            /\ CountAt(cache_expire_after_override', last'.url[1], last'.url[2]) = 1
       /\ Accepted(last', "throttle") =>
            /\ RuleAt(cache_throttle', last'.url[1], last'.url[2]) = last'.ret
            /\ CountAt(cache_throttle', last'.url[1], last'.url[2]) = 1]_vars

\* C3: a registration of an expiration that is negative or exceeds the
\* global default, or of a rate outside [0, 1000], raises, and leaves both
\* tables as they were.
InvalidArg(l) ==
    \/ /\ l.op = "expire_after"
       /\ \/ l.arg < 0
          \/ cache_expire_after # None /\ l.arg > The(cache_expire_after)
    \/ /\ l.op = "throttle"
       /\ (l.arg < 0 \/ l.arg > 1000)

C3_InvalidValueRejected ==
    [][InvalidArg(last') =>
          /\ last'.outcome = "raised"
          /\ UNCHANGED <<cache_expire_after_override, cache_throttle>>]_vars

\* C4: a registration call either raises, or returns the value it was given
\* and that value is then resolved for every URL under the registered prefix.
C4_ReturnsValueOrFails ==
    /\ last.op = "expire_after" =>
          \/ last.outcome = "raised"
          \/ /\ last.outcome = "returned" /\ last.ret = Some(last.arg)
             /\ \A u \in Urls : UnderPrefix(u, last.url) => lookup_expire_after(u) = last.ret
    /\ last.op = "throttle" =>
          \/ last.outcome = "raised"
          \/ /\ last.outcome = "returned" /\ last.ret = Some(last.arg)
             /\ \A u \in Urls : UnderPrefix(u, last.url) => lookup_throttle(u) = last.ret

(***************************************************************************)
(* Helpers of the dispatch claims.                                         *)
(***************************************************************************)
Dispatched(l) == l.op = "request"
Fetched(l) == Dispatched(l) /\ l.route \in {"miss", "stale"}
KeyOf(l) == create_key(l.method, l.url)
Count(events, e) == Cardinality({i \in DOMAIN events : events[i] = e})
Index(events, e) == CHOOSE i \in DOMAIN events : events[i] = e
\* the expiration the claims resolve for a URL: the matching override, else
\* the global default, else None
ResolvedExpiration(url) ==
    LET m == FirstMatch(cache_expire_after_override[url[1]], url[2])
    IN  IF m # None THEN m ELSE cache_expire_after

\* C5: a dispatch of a method outside the allow-list, or made while caching
\* is disabled, invokes the transport exactly once, reads nothing from the
\* store and leaves the responses and the alias map as they were.
C5_PassThroughLeavesStore ==
    [][(Dispatched(last') /\ (last'.method \notin AllowableMethods \/ is_cache_disabled))
         => /\ last'.transport_calls = 1
            /\ Count(last'.events, "get") = 0
            /\ responses' = responses
            /\ keys_map' = keys_map]_vars

\* C6: a dispatch on the cached path that finds an entry stored at t0 serves
\* it from the cache, without the transport, when no expiration is resolved
\* or now - t0 <= E; when now - t0 > E the entry is deleted and the request
\* is fetched (E the override or the global default, 0 included).
C6_FreshnessBoundary ==
    [][(/\ Dispatched(last')
        /\ last'.method \in AllowableMethods /\ ~is_cache_disabled
        /\ get_response_and_time(responses, keys_map, KeyOf(last')) # None)
         => LET entry == The(get_response_and_time(responses, keys_map, KeyOf(last')))
                canonical_key == resolve_alias(keys_map, KeyOf(last'))
                E == ResolvedExpiration(last'.url)
            IN  IF E = None \/ now - entry.stored_at <= timedelta(The(E))
                THEN /\ last'.from_cache /\ last'.transport_calls = 0
                     /\ last'.response = Some(entry.payload)
                     /\ responses' = responses
                ELSE /\ ~last'.from_cache /\ last'.transport_calls = 1
                     /\ \/ canonical_key \notin DOMAIN responses'
                        \/ responses'[canonical_key].stored_at = now'
                              /\ canonical_key = KeyOf(last')]_vars

\* C7: a dispatch on the miss or stale path whose transport answers invokes
\* the transport once and returns the answer marked not-from-cache; the
\* answer is stored under the request's key at the current time iff its
\* status is allowable: after an allowable status the same request finds a
\* fresh entry, after another status no entry is stored for the key.
C7_MissStoresIffAllowable ==
    [][(Fetched(last') /\ last'.outcome = "returned")
         => LET key == KeyOf(last')
                response == The(last'.response)
                hit == get_response_and_time(responses', keys_map', key)
            IN  /\ last'.transport_calls = 1
                /\ ~last'.from_cache
                /\ response.status \in AllowableCodes =>
                      /\ key \in DOMAIN responses'
                      /\ responses'[key] = [payload |-> response, stored_at |-> now']
                      /\ hit = Some(responses'[key])
                      /\ ~Expired(The(hit), lookup_expire_after(last'.url), now')
                /\ response.status \notin AllowableCodes =>
                      key \notin DOMAIN responses']_vars

\* C7 (amended): as C7, with the two consequences restricted to a request
\* whose key is not registered, before or by the dispatch, as an alias of
\* another key: the entry is always written under the request's own key iff
\* the status is allowable, but a lookup of an aliased key goes to the
\* canonical key.
Unaliased(km, key) == resolve_alias(km, key) = key

C7_MissStoresIffAllowable_Unaliased ==
    [][(Fetched(last') /\ last'.outcome = "returned")
         => LET key == KeyOf(last')
                response == The(last'.response)
                hit == get_response_and_time(responses', keys_map', key)
                before == IF last'.route = "stale"
                          THEN Remove(responses, resolve_alias(keys_map, key))
                          ELSE responses
            IN  /\ last'.transport_calls = 1
                /\ ~last'.from_cache
                /\ response.status \in AllowableCodes =>
                      /\ responses' = Put(before, key, [payload |-> response, stored_at |-> now'])
                      /\ Unaliased(keys_map', key) =>
                            /\ hit = Some(responses'[key])
                            /\ ~Expired(The(hit), lookup_expire_after(last'.url), now')
                /\ response.status \notin AllowableCodes =>
                      /\ responses' = before
                      /\ Unaliased(keys_map', key) => key \notin DOMAIN responses']_vars

C7_Witness ==
    /\ Fetched(last) /\ last.route = "stale" /\ last.outcome = "returned"
    /\ The(last.response).status \notin AllowableCodes
    /\ Unaliased(keys_map, KeyOf(last))
    /\ KeyOf(last) \notin DOMAIN responses

\* C8: after a dispatch with caching enabled that returns a response with a
\* redirect history, the key of every request of the history is mapped to
\* the key of the final request, and a lookup by any of them returns what a
\* lookup by the key of the final request returns.
C8_HistoryKeysResolveAsFinal ==
    (Dispatched(last) /\ last.outcome = "returned" /\ ~is_cache_disabled)
      => LET response == The(last.response)
             main_key == create_key(last.method, response.final)
         IN  \A i \in DOMAIN response.history :
                LET k == create_key(last.method, response.history[i])
                IN  /\ k \in DOMAIN keys_map /\ keys_map[k] = main_key
                    /\ get_response_and_time(responses, keys_map, k)
                         = get_response_and_time(responses, keys_map, main_key)

\* C8 (amended): after such a dispatch the key of every request of the
\* history is mapped to the key of the final request, and a lookup by any of
\* them returns exactly the entry stored under the key of the final request
\* (or nothing when none is stored); a lookup by the key of the final request
\* returns the same unless that key is itself registered as an alias of
\* another key.
C8_HistoryKeysResolveToFinalEntry ==
    (Dispatched(last) /\ last.outcome = "returned" /\ ~is_cache_disabled)
      => LET response == The(last.response)
             main_key == create_key(last.method, response.final)
         IN  \A i \in DOMAIN response.history :
                LET k == create_key(last.method, response.history[i])
                    got == get_response_and_time(responses, keys_map, k)
                IN  /\ k \in DOMAIN keys_map /\ keys_map[k] = main_key
                    /\ got = IF main_key \in DOMAIN responses
                             THEN Some(responses[main_key]) ELSE None
                    /\ Unaliased(keys_map, main_key) =>
                          got = get_response_and_time(responses, keys_map, main_key)

C8_Witness ==
    /\ Dispatched(last) /\ last.outcome = "returned" /\ ~is_cache_disabled
    /\ Len(The(last.response).history) = 2
    /\ Unaliased(keys_map, create_key(last.method, The(last.response).final))
    /\ get_response_and_time(responses, keys_map, KeyOf(last)) # None

\* C9: a dispatch on the miss or stale path for a URL whose resolved rate r
\* is present and > 0 sleeps 1/r seconds once, after the lookup and before
\* the transport, which so starts at least 1/r seconds after the dispatch
\* began; with no rate or rate 0, and on a hit, there is no sleep.
C9_ThrottleWait ==
    Dispatched(last) =>
      LET r == lookup_throttle(last.url)
      IN  IF Fetched(last) /\ r # None /\ The(r) > 0
          THEN /\ last.slept = r
               /\ Count(last.events, "sleep") = 1
               /\ Count(last.events, "transport") = 1
               /\ Index(last.events, "get") < Index(last.events, "sleep")
               /\ Index(last.events, "sleep") < Index(last.events, "transport")
               /\ (The(last.transport_at) - last.started_at) * The(r) >= 2 - (2 % The(r))
          ELSE /\ last.slept = None
               /\ Count(last.events, "sleep") = 0
               /\ last.route \in {"pass", "hit"} =>
                     (last.transport_at = None \/ last.transport_at = Some(last.started_at))

C9_Witness ==
    /\ Fetched(last) /\ last.route = "stale"
    /\ last.slept = Some(2)
    /\ The(last.transport_at) - last.started_at = 1

Cached(l) == Dispatched(l) /\ l.method \in AllowableMethods /\ ~is_cache_disabled

\* C11: when the backend fails during the lookup of a cached dispatch, the
\* failure propagates to the caller: the dispatch is not treated as a miss,
\* the transport is never invoked and nothing is stored; when the backend
\* fails during the put that follows a fetch, the failure propagates to the
\* caller as well and no response is returned.
C11_StorageFailurePropagates ==
    [][/\ (Cached(last') /\ last'.fault = "get")
            => /\ last'.outcome = "raised" /\ last'.error = "storage" /\ exc'
               /\ last'.route \notin {"miss", "stale", "hit"}
               /\ last'.transport_calls = 0
               /\ Count(last'.events, "transport") = 0
               /\ Count(last'.events, "put") = 0
               /\ last'.response = None
               /\ responses' = responses /\ keys_map' = keys_map
       /\ (Cached(last') /\ last'.fault = "put" /\ Count(last'.events, "put") > 0)
            => /\ last'.outcome = "raised" /\ last'.error = "storage" /\ exc'
               /\ last'.transport_calls = 1
               /\ last'.response = None]_vars

\* a lookup failed although an entry was stored, and a put failed after a
\* fetch on the stale path
C11_WitnessPut ==
    /\ Dispatched(last) /\ last.fault = "put" /\ last.route = "stale"
    /\ Count(last.events, "put") = 1
    /\ last.outcome = "raised" /\ last.error = "storage"

C11_Witness ==
    /\ Dispatched(last) /\ last.fault = "get"
    /\ KeyOf(last) \in DOMAIN responses
    /\ last.outcome = "raised" /\ last.transport_calls = 0

\* the transport was reached by a cached or passed-through dispatch and failed
TransportFailed(l) == Dispatched(l) /\ l.outcome = "raised" /\ l.error = "transport"

\* C12 (as stated): a transport failure reaches the caller after exactly one
\* transport call, nothing is put, and the store holds the same entries
\* after the failed dispatch as before it, on the stale path too.
C12_FailedFetchLeavesStore ==
    [][TransportFailed(last')
         => /\ exc'
            /\ last'.transport_calls = 1
            /\ Count(last'.events, "transport") = 1
            /\ Count(last'.events, "put") = 0
            /\ responses' = responses
            /\ keys_map' = keys_map]_vars

\* C12 (amended): a transport failure reaches the caller after exactly one
\* transport call and nothing is put; the store holds the same entries as
\* before, except that on the stale path the stale entry found by the lookup
\* has already been deleted and stays deleted.
C12_FailedFetchPutsNothing ==
    [][TransportFailed(last')
         => /\ exc'
            /\ last'.transport_calls = 1
            /\ Count(last'.events, "transport") = 1
            /\ Count(last'.events, "put") = 0
            /\ last'.response = None
            /\ keys_map' = keys_map
            /\ responses' = IF last'.route = "stale"
                            THEN delete(responses, keys_map, KeyOf(last'))
                            ELSE responses
            /\ last'.route = "stale"
                 => get_response_and_time(responses', keys_map', KeyOf(last')) = None]_vars

C12_Witness ==
    /\ TransportFailed(last) /\ last.route = "stale"
    /\ last.found # None
    /\ get_response_and_time(responses, keys_map, KeyOf(last)) = None

\* C19 (as stated): while at least one cache_disabled scope is active caching
\* is disabled and every dispatch is passed through; leaving an inner scope
\* does not re-enable caching while an outer scope is still active.
C19_NestedScopesStayDisabled ==
    /\ scopes > 0 => is_cache_disabled
    /\ (Dispatched(last) /\ last.scopes > 0) => last.route = "pass"

\* the rule list of a table for one host is ordered by non-increasing
\* prefix length
SortedByLenDesc(a) ==
    \A i, j \in DOMAIN a : i < j => Len(a[i][1]) >= Len(a[j][1])

\* every stored value of a table lies between lo and hi
ValuesWithin(table, lo, hi) ==
    \A h \in Hosts : \A i \in DOMAIN table[h] :
        table[h][i][2] >= lo /\ table[h][i][2] <= hi

TablesValid ==
    /\ cache_expire_after \in Defaults
    /\ \A h \in Hosts : SortedByLenDesc(cache_expire_after_override[h])
    /\ \A h \in Hosts : SortedByLenDesc(cache_throttle[h])
    /\ ValuesWithin(cache_throttle, 0, MaxRate)
    /\ IF cache_expire_after = None
       THEN \A h \in Hosts : cache_expire_after_override[h] = <<>>
       ELSE ValuesWithin(cache_expire_after_override, 0, The(cache_expire_after))

\* C20: in every state reached by accepted and rejected registrations and by
\* dispatches, the global default expiration is the one of construction,
\* every expiration rule v has 0 <= v <= default, every throttle rate lies
\* in [0, 1000] and each host's rule list is ordered by non-increasing
\* prefix length; a rejected registration and a dispatch change no table.
C20_PolicyTableInvariants ==
    /\ []TablesValid
    /\ [][/\ cache_expire_after' = cache_expire_after
           /\ (Dispatched(last') \/ last'.outcome = "raised")
                => /\ cache_expire_after_override' = cache_expire_after_override
                   /\ cache_throttle' = cache_throttle]_vars

C20_Witness ==
    /\ Dispatched(last)
    /\ cache_expire_after = Some(1)
    /\ cache_expire_after_override["h"] # <<>>
    /\ cache_expire_after_override["g"] # <<>>
    /\ cache_throttle["h"] # <<>>
    /\ cache_throttle["h"][1][2] = MaxRate

\* the caller's last operation has returned or raised
Returned(c, op) == callers[c].pc = "idle" /\ callers[c].op = op
\* the operation that completes in this step
JustCompleted(c, op) ==
    /\ completed' = completed + 1
    /\ callers'[c].pc = "idle" /\ callers'[c].op = op
    /\ callers'[c].done_at = completed'

\* C13: in every interleaving of get, put and delete by two callers on one
\* key of a shared MongoDict no operation fails other than a get or a del
\* reporting "not found" (KeyError); a get returns a value that was put; the
\* store holds the value of the put that completed last: after two puts the
\* value of the later one, never a mix and never no value.
C13_InterleavedOperations ==
    /\ \A c \in Callers :
          /\ callers[c].result \in {"none", "ok", "KeyError"} \cup Items
          /\ callers[c].result = "KeyError" => callers[c].op \in {"get", "del"}
          /\ (Returned(c, "get") /\ callers[c].result # "KeyError")
                => callers[c].result \in Items
          /\ (Returned(c, "set") /\ callers[c].done_at = completed)
                => /\ callers[c].key \in DOMAIN collections[callers[c].coll]
                   /\ collections[callers[c].coll][callers[c].key].data = callers[c].item
    /\ \A c, d \in Callers :
          (Returned(c, "set") /\ Returned(d, "set") /\ callers[c].key = callers[d].key
              /\ callers[c].done_at < callers[d].done_at)
             => /\ callers[d].key \in DOMAIN collections["urls"]
                /\ collections["urls"][callers[d].key].data = callers[d].item
    /\ \A key \in DOMAIN collections["urls"] : collections["urls"][key].data \in Items

\* two puts of different values, and the later put came second
C13_Witness ==
    /\ Returned(1, "set") /\ Returned(2, "set")
    /\ callers[1].item = "a" /\ callers[2].item = "b"
    /\ callers[2].done_at < callers[1].done_at
    /\ callers[1].prev = "del"
    /\ collections["urls"]["k"].data = "a"

TTLCovers(name) ==
    \/ mongo_ttl[name] = None
    \/ /\ cache_expire_after # None
       /\ The(mongo_ttl[name]) >= The(cache_expire_after)

\* C17 (as stated): the TTL set on the responses collection and on the alias
\* collection is never shorter than the expiration the session was built
\* with (no TTL when the session has no expiration), so the TTL monitor
\* never removes a document that is younger than that expiration.
C17_TTLCoversExpiration ==
    /\ [](\A name \in Collections : TTLCovers(name))
    /\ [][\A name \in Collections :
            \A key \in DOMAIN collections[name] \ DOMAIN collections'[name] :
               /\ cache_expire_after # None
               /\ mongo_now - collections[name][key].updated_at
                     >= The(cache_expire_after)]_vars

\* the call before this step was an accepted registration through the
\* functions of the module
ModuleRule(l, op) == l.op = op /\ l.outcome = "returned" /\ l.ret # None

\* C15 (as stated): after install_cache, a rule accepted by the functions
\* expire_after(url, v) / throttle(url, r) of the module is the policy of the
\* installed session: the session obtained next from the patched factory,
\* and the request made next, resolve v / r for that URL.
C15_ModuleRuleReachesSessions ==
    [][\A u \in Urls :
          /\ (ModuleRule(last, "module_expire_after") /\ last.url = u
                /\ (last'.op = "Session" \/ Dispatched(last')))
                => lookup_expire_after(u)' = last.ret
          /\ (ModuleRule(last, "module_throttle") /\ last.url = u
                /\ (last'.op = "Session" \/ Dispatched(last')))
                => lookup_throttle(u)' = last.ret]_vars

\* C16 (as stated): whatever expire_after and backend install_cache was
\* called with, each session the patched factory produces has that
\* expire_after as its global default expiration.
C16_InstalledDefault ==
    (last.op = "Session" /\ installed # None)
       => cache_expire_after = The(installed).expire_after

\* the entry is older than the expiration of the sessions, by the clock
StaleNow(entry, clock) ==
    /\ cache_expire_after # None
    /\ clock - entry.stored_at > 2 * The(cache_expire_after)

\* C18 (as stated): with two sessions on one store, the delete of the stale
\* path removes only an entry that is stale at the moment of the delete; a
\* fresh entry the other session has just put is never deleted by it.
C18_DeleteRemovesOnlyStale ==
    [][(last'.op = "delete" /\ last'.found # None)
         => StaleNow(The(last'.found), now)]_vars

\* C18 (amended): a session issues the delete of the stale path only after
\* its own lookup returned an entry that was stale, and that entry is still
\* stale at the delete; the delete removes whatever is stored under the key
\* at that moment, which is either a stale entry or an entry the other
\* session put after this session's lookup, and leaves the key without an
\* entry.
C18_DeleteFollowsStaleLookup ==
    /\ [](\A d \in Dispatchers :
            dispatchers[d].pc = "delete"
               => /\ dispatchers[d].found # None
                  /\ StaleNow(The(dispatchers[d].found), now))
    /\ [][last'.op = "delete"
            => /\ get_response_and_time(responses', keys_map', KeyOf(last')) = None
               /\ \A d \in Dispatchers :
                     (last'.arg = d /\ last'.found # None)
                        => \/ StaleNow(The(last'.found), now)
                           \/ The(last'.found).stored_at
                                 > The(dispatchers[d].found).stored_at]_vars

\* the delete of one session has removed the fresh entry of the other
C18_Witness ==
    /\ last.op = "delete" /\ last.found # None
    /\ ~StaleNow(The(last.found), now)
    /\ KeyOf(last) \notin DOMAIN responses

====
